---- MODULE Spec2Model ----
(***************************************************************************)
(* Model of the sparrow mail bot: the polling jobs of jobs.py (poll_emails, *)
(* poll_user_now, process_user_account), the Gmail client construction of  *)
(* gmail_api.py, the Seen-Set store of history.py, and the summarizer of    *)
(* ollama_integration.py with the fingerprint cache of cache.py.            *)
(*                                                                         *)
(* The specifications:                                                    *)
(*   Spec            the polling jobs (jobs.py), one action per call of     *)
(*                   process_user_account;                                  *)
(*   SpecSummarizer  the summarizer and its cache, one action per call of   *)
(*                   _sync_summarize, with the prune job;                   *)
(*   SpecOllamaCall  the same call in steps, waiting for the service;       *)
(*   SpecNotice      the text made ready for the Notifier (jobs.py:96-103)  *)
(*                   as a function of address, descriptor and summary;     *)
(*   SpecReasoning   the summarizer with answers that carry reasoning;      *)
(*   SpecCache       get, put and prune of cache.py at instants of a clock; *)
(*   SpecFingerprint generate_fingerprint on pairs of triples;              *)
(*   SpecStrip       strip_html_tags on markups;                            *)
(*   SpecBody        get_email_body on payload trees;                       *)
(*   SpecWatermark   the watermark records under /label and the polls.      *)
(***************************************************************************)
EXTENDS Integers, Sequences, FiniteSets, TLC

(***************************************************************************)
(* Bounds of the model.                                                    *)
(***************************************************************************)
\* tenants (chat ids) are 1..NTenants
NTenants == 2
\* message ids of an account's mailbox are 1..MaxMsgs
MaxMsgs == 1
\* polling jobs started in one behaviour
MaxJobs == 2

Tenants == 1..NTenants
\* account labels (the e-mail address naming a linked account's files), as
\* sequences of pieces of text; the empty one is email=None, the legacy flat
\* credential users/<chat_id>.json
NoLabel == <<>>
\* the address a tenant has linked: the odd tenants the first, the even ones
\* the second
LinkedLabel(t) == IF t % 2 = 1 THEN <<"x", "@m">> ELSE <<"y", "_meta", "@m">>
Labels == {LinkedLabel(t) : t \in Tenants}
\* every tenant may hold a legacy credential and one linked account
Accounts == {<<t, NoLabel>> : t \in Tenants} \cup {<<t, LinkedLabel(t)>> : t \in Tenants}
MsgIds == 1..MaxMsgs

\* The states a credential file can be in (gmail_api.py:33-47).
CredStates == {"absent", "valid", "expired", "norefresh", "corrupt"}

VARIABLES
    creds,       \* creds[a]: state of the credential file of account a
    unread,      \* unread[a]: ids the provider lists as unread for a
    histories,   \* histories[c]: content of histories/<chat_id>.json, or Absent
    sent,        \* texts the polling path handed to context.bot.send_message
    job,         \* the polling job in progress: "idle", "poll_emails", "poll_user_now"
    pending,     \* accounts the running job has still to visit
    curDir,      \* tenant directory the second loop is in (0: none)
    outcome,     \* outcome[a]: how process_user_account(a) ended in this job
    calls,       \* calls[a]: calls of process_user_account(a) in this job
    result,      \* of the job: "none", "running", "completed", "aborted" (an exception left it)
    jobs,        \* number of jobs started
    service,     \* the external summarization service: "up" or "down"
    cache,       \* message_cache table: fingerprint -> summary
    prev,        \* the call of _sync_summarize before the last one
    last,        \* the last call of _sync_summarize
    call,        \* the call of _sync_summarize that is waiting in ollama.chat
    notice,      \* the last text made ready for the Notifier, and what from
    now,         \* the clock, int(time.time())
    shadow,      \* shadow[fp]: what has been put under fp since it was pruned
    applied,     \* the last application of a function of the program to an input
    meta         \* meta[a]: content of the watermark record of account a

pollVars == <<creds, unread, histories, sent, job, pending, curDir, outcome,
              calls, result, jobs, notice, shadow, applied, meta>>
sumVars == <<cache, prev, last, call, now>>
vars == <<creds, unread, histories, sent, job, pending, curDir, outcome,
          calls, result, jobs, service, cache, prev, last, call, notice, now,
          shadow, applied, meta>>

(***************************************************************************)
(* Seen-Set store, history.py.  A record histories/<chat_id>.json is        *)
(* absent, unreadable as JSON, or a list of ids.                            *)
(***************************************************************************)
AbsentFile == [state |-> "absent", ids |-> <<>>]

\* history.py:17 and 31: the record of an account is the file
\* <HISTORY_DIR>/<chat_id>.json; histories is indexed by the chat id
HistoryFile(chatId) == <<ToString(chatId), ".json">>

\* parameters of load_history (history.py:12)
LoadHistoryParams == {"chat_id"}

\* A Python call binds when every keyword it passes names a parameter of the
\* callee; otherwise the call raises TypeError before the body runs.
CallBinds(params, keywords) == keywords \subseteq params

\* load_history(chat_id, **keywords): the body (history.py:17-25) returns the
\* list, or [] for a missing or unreadable file.
load_history(chatId, keywords) ==
    IF ~CallBinds(LoadHistoryParams, keywords)
    THEN [raised |-> TRUE, value |-> <<>>]
    ELSE [raised |-> FALSE,
          value |-> IF histories[chatId].state = "list"
                    THEN histories[chatId].ids ELSE <<>>]

(***************************************************************************)
(* Mailbox client construction, gmail_api.py:18-49.                         *)
(*   absent     no credential file: returns None (line 34)                  *)
(*   corrupt    Credentials.from_authorized_user_file raises (line 36),     *)
(*              outside every try                                           *)
(*   valid      creds.valid: build() (line 49)                              *)
(*   expired    expired with a refresh token: refresh (lines 38-45), which  *)
(*              on success rewrites the file and on failure returns None    *)
(*   norefresh  not valid and not refreshable: returns None (line 47)       *)
(***************************************************************************)
get_gmail_service(cred, refreshOk) ==
    CASE cred = "absent"    -> [raised |-> FALSE, service |-> FALSE, written |-> FALSE]
      [] cred = "corrupt"   -> [raised |-> TRUE,  service |-> FALSE, written |-> FALSE]
      [] cred = "valid"     -> [raised |-> FALSE, service |-> TRUE,  written |-> FALSE]
      [] cred = "expired"   -> [raised |-> FALSE, service |-> refreshOk, written |-> refreshOk]
      [] cred = "norefresh" -> [raised |-> FALSE, service |-> FALSE, written |-> FALSE]

(***************************************************************************)
(* process_user_account, jobs.py:45-69.  The watermark read (lines 48-62)   *)
(* only sets the locals start_ts and descriptor, which are used from line   *)
(* 72 on.  The account's run ends in one of:                                *)
(*   "skipped"           the return of line 67 (no client)                  *)
(*   "raised_credential" the exception of gmail_api.py:36 leaving line 65   *)
(*   "raised_history"    the TypeError of the call of line 69, which passes *)
(*                       email= to load_history(chat_id)                    *)
(*   "loaded"            line 69 returned the Seen-Set                      *)
(***************************************************************************)
AccountRun(a, refreshOk) ==
    LET svc == get_gmail_service(creds[a], refreshOk)
        h   == load_history(a[1], {"email"})
    IN  CASE svc.raised   -> "raised_credential"
          [] ~svc.raised /\ ~svc.service -> "skipped"
          [] ~svc.raised /\ svc.service /\ h.raised  -> "raised_history"
          [] ~svc.raised /\ svc.service /\ ~h.raised -> "loaded"

Raised(o) == o \in {"raised_credential", "raised_history"}

(***************************************************************************)
(* Account enumeration, jobs.py:28-43 and 190-201: the credential files     *)
(* that exist, legacy ones first, then one tenant directory after another;  *)
(* os.listdir gives no order within a loop.                                 *)
(***************************************************************************)
Registered == {a \in Accounts : creds[a] # "absent"}
IsLegacy(a) == a[2] = NoLabel

\* File names are sequences of pieces of text.  A linked account has the
\* credential file <email>.json and the watermark record <email>_meta.json,
\* written together (handlers.py:143-150); a legacy one has
\* users/<chat_id>.json and users/<chat_id>_meta.json.
BaseName(a) == IF IsLegacy(a) THEN <<ToString(a[1])>> ELSE a[2]
CredFile(a) == BaseName(a) \o <<".json">>
MetaFile(a) == BaseName(a) \o <<"_meta", ".json">>

EndsWith(f, piece) == f # <<>> /\ f[Len(f)] = piece
Contains(f, piece) == \E i \in DOMAIN f : f[i] = piece
\* str.replace(piece, '')
Remove(f, piece) == SelectSeq(f, LAMBDA x : x # piece)

\* the test of jobs.py:30, 41 and 198 on a directory entry
IsCredentialName(f) == EndsWith(f, ".json") /\ ~Contains(f, "_meta")

\* os.listdir(USERS_DIR), the regular files, and os.listdir(user_dir)
RootFiles ==
    UNION {{CredFile(a), MetaFile(a)} : a \in {b \in Registered : IsLegacy(b)}}
DirFiles(t) ==
    UNION {{CredFile(a), MetaFile(a)} :
              a \in {b \in Registered : ~IsLegacy(b) /\ b[1] = t}}

\* jobs.py:29-34: the accounts the first loop of poll_emails calls
\* process_user_account for
LegacyTargets ==
    {<<t, NoLabel>> : t \in {u \in Tenants :
        \E f \in RootFiles :
            IsCredentialName(f) /\ Remove(f, ".json") = <<ToString(u)>>}}
\* jobs.py:40-43 and 197-201: the accounts of one tenant directory
DirTargets(t) ==
    {<<t, Remove(f, ".json")>> : f \in {g \in DirFiles(t) : IsCredentialName(g)}}
PollEmailsTargets == LegacyTargets \cup UNION {DirTargets(t) : t \in Tenants}
\* jobs.py:190-201: poll_user_now tests the legacy file by its path
PollUserNowTargets(t) ==
    {a \in Registered : IsLegacy(a) /\ a[1] = t} \cup DirTargets(t)

Candidates ==
    LET legacy == {a \in pending : IsLegacy(a)}
        inDir  == {a \in pending : a[1] = curDir}
    IN  IF legacy # {} THEN legacy
        ELSE IF inDir # {} THEN inDir
        ELSE pending

NoOutcome == [a \in Accounts |-> "none"]
NoCalls == [a \in Accounts |-> 0]

\* main.py:62: the JobQueue starts poll_emails every POLL_INTERVAL seconds
StartPollEmails ==
    /\ job = "idle"
    /\ jobs < MaxJobs
    /\ job' = "poll_emails"
    /\ pending' = PollEmailsTargets
    /\ curDir' = 0
    /\ outcome' = NoOutcome
    /\ calls' = NoCalls
    /\ result' = "running"
    /\ jobs' = jobs + 1
    /\ UNCHANGED <<creds, unread, histories, sent>>
    /\ UNCHANGED <<service, cache, prev, last, call, notice, now, shadow,
                   applied, meta>>

\* handlers.py:74-87 (/start of a known tenant) schedules poll_user_now
StartPollUserNow(t) ==
    /\ job = "idle"
    /\ jobs < MaxJobs
    /\ \E a \in Registered : a[1] = t
    /\ job' = "poll_user_now"
    /\ pending' = PollUserNowTargets(t)
    /\ curDir' = 0
    /\ outcome' = NoOutcome
    /\ calls' = NoCalls
    /\ result' = "running"
    /\ jobs' = jobs + 1
    /\ UNCHANGED <<creds, unread, histories, sent>>
    /\ UNCHANGED <<service, cache, prev, last, call, notice, now, shadow,
                   applied, meta>>

\* one iteration of a loop of poll_emails / poll_user_now: the call of
\* process_user_account for the next credential file
ProcessUserAccount(a, refreshOk) ==
    /\ result = "running"
    /\ a \in Candidates
    /\ LET o == AccountRun(a, refreshOk)
           svc == get_gmail_service(creds[a], refreshOk)
       IN  /\ o # "loaded"
           /\ outcome' = [outcome EXCEPT ![a] = o]
           /\ calls' = [calls EXCEPT ![a] = @ + 1]
           /\ creds' = IF svc.written THEN [creds EXCEPT ![a] = "valid"] ELSE creds
           /\ pending' = pending \ {a}
           /\ curDir' = IF IsLegacy(a) THEN curDir ELSE a[1]
           /\ result' = IF Raised(o) THEN "aborted" ELSE result
    /\ UNCHANGED <<unread, histories, sent, job, jobs>>
    /\ UNCHANGED <<service, cache, prev, last, call, notice, now, shadow,
                   applied, meta>>

\* the loops are exhausted: the job returns
FinishJob ==
    /\ result = "running"
    /\ pending = {}
    /\ result' = "completed"
    /\ UNCHANGED <<creds, unread, histories, sent, job, pending, curDir, outcome,
                   calls, jobs>>
    /\ UNCHANGED <<service, cache, prev, last, call, notice, now, shadow,
                   applied, meta>>

\* the JobQueue logs a job's exception and waits for the next run
JobReturns ==
    /\ result \in {"completed", "aborted"}
    /\ job' = "idle"
    /\ result' = "none"
    /\ UNCHANGED <<creds, unread, histories, sent, pending, curDir, outcome,
                   calls, jobs>>
    /\ UNCHANGED <<service, cache, prev, last, call, notice, now, shadow,
                   applied, meta>>

\* the provider receives a message for an account
Arrive(a, m) ==
    /\ job = "idle"
    /\ a \in Registered
    /\ m \notin unread[a]
    /\ unread' = [unread EXCEPT ![a] = @ \cup {m}]
    /\ UNCHANGED <<creds, histories, sent, job, pending, curDir, outcome,
                   calls, result, jobs>>
    /\ UNCHANGED <<service, cache, prev, last, call, notice, now, shadow,
                   applied, meta>>

(***************************************************************************)
(* Texts are sequences of characters.                                       *)
(***************************************************************************)
Senders  == {<<"a">>}
Subjects == {<<"s">>, <<"t">>}
Bodies   == {<<"b">>}
Inputs   == Senders \X Subjects \X Bodies
\* what the service may answer (message.content)
Contents == {<<>>, <<"x">>, <<" ", "y">>}

Take(t, n) == SubSeq(t, 1, IF Len(t) < n THEN Len(t) ELSE n)

IsSpace(c) == c = " "

\* str.strip(): the text without its leading and trailing whitespace
RECURSIVE LStrip(_)
LStrip(t) == IF t # <<>> /\ IsSpace(Head(t)) THEN LStrip(Tail(t)) ELSE t
RECURSIVE RStrip(_)
RStrip(t) ==
    IF t # <<>> /\ IsSpace(t[Len(t)]) THEN RStrip(SubSeq(t, 1, Len(t) - 1)) ELSE t
Strip(t) == RStrip(LStrip(t))

(***************************************************************************)
(* The text handed to the Notifier, jobs.py:96-103, one character per       *)
(* element.                                                                 *)
(***************************************************************************)
\* the threshold of jobs.py:102
NotifierLimit == 4000
\* the truncation marker of jobs.py:103
Marker == <<".", ".", ".">>

\* jobs.py:98: prefix = descriptor if descriptor else email
Prefix(email, descriptor) == IF descriptor # <<>> THEN descriptor ELSE email

\* jobs.py:97-99: the summary of a linked account carries the prefix
PrependPrefix(email, descriptor, summary) ==
    IF email = <<>> THEN summary
    ELSE <<"[">> \o Prefix(email, descriptor) \o <<"]", "\n">> \o summary

\* a truncation that counts the marker in: the text stays within the limit
TruncateWithin(t) ==
    IF Len(t) > NotifierLimit
    THEN SubSeq(t, 1, NotifierLimit - Len(Marker)) \o Marker ELSE t

\* jobs.py:102-103: summary[:4000] + "..."
Truncate(t) ==
    IF Len(t) > NotifierLimit THEN SubSeq(t, 1, NotifierLimit) \o Marker ELSE t

\* jobs.py:96-103
NotifierText(email, descriptor, summary) ==
    Truncate(PrependPrefix(email, descriptor, summary))

\* a character with no UTF-8 encoding (a lone surrogate)
Surrogate == "U+D800"
\* cache.py:36: str.encode('utf-8', errors='ignore') leaves out the
\* characters it cannot encode
Encode(t) == SelectSeq(t, LAMBDA c : c # Surrogate)

\* cache.py:31-37: the digest of "sender|subject|body"; SHA-256 is taken as
\* injective, so the fingerprint is the digest's input
generate_fingerprint(sender, subject, body) ==
    Encode(sender \o <<"|">> \o subject \o <<"|">> \o body)

Fingerprints == {generate_fingerprint(i[1], i[2], i[3]) : i \in Inputs}

\* seconds of a day (cache.py:72) and the horizon of the prune job in days
\* (jobs.py:180)
Day == 86400
RetentionDays == 365

\* a row of message_cache (summary, timestamp), or no row; a row is written
\* with the current time (cache.py:60-61)
NoRow == [present |-> FALSE, summary |-> <<>>, timestamp |-> 0]
\* a row written without its summary
RowBlank(summary) == [present |-> TRUE, summary |-> <<>>, timestamp |-> now]
Row(summary) == [present |-> TRUE, summary |-> summary, timestamp |-> now]

\* Python's None and a str value
None == [some |-> FALSE, text |-> <<>>]
Str(t) == [some |-> TRUE, text |-> t]
\* truth value of `if cached:` (ollama_integration.py:24)
Truthy(v) == v.some /\ v.text # <<>>

\* get_cached_summary without its try/except: the storage error propagates
get_cached_summary_unguarded(fp, storageError) ==
    IF storageError THEN [raised |-> TRUE, value |-> None]
    ELSE IF cache[fp].present
         THEN [raised |-> FALSE, value |-> Str(cache[fp].summary)]
         ELSE [raised |-> FALSE, value |-> None]

\* cache.py:39-52: the summary of the row, None when there is no row, and
\* None when the storage raises (the error is logged)
get_cached_summary(fp, storageError) ==
    IF storageError THEN [raised |-> FALSE, value |-> None]
    ELSE IF cache[fp].present
         THEN [raised |-> FALSE, value |-> Str(cache[fp].summary)]
         ELSE [raised |-> FALSE, value |-> None]

\* set_cached_summary without its commit: the row is never written
set_cached_summary_uncommitted(fp, summary, storageError) ==
    [raised |-> FALSE, table |-> cache]

\* cache.py:54-67: INSERT OR REPLACE; a storage error is logged and the table
\* is left as it was
set_cached_summary(fp, summary, storageError) ==
    IF storageError
    THEN [raised |-> FALSE, table |-> cache]
    ELSE [raised |-> FALSE, table |-> [cache EXCEPT ![fp] = Row(summary)]]

FallbackBodyLimit == 500

\* ollama_integration.py:50
Fallback(sender, subject, body) ==
    <<"New Email", "\n", "From: ">> \o sender \o <<"\n", "Subject: ">> \o subject
        \o <<"\n", "\n">> \o Take(body, FallbackBodyLimit) \o <<"...">>

\* ollama.chat (ollama_integration.py:36-40): the answer of the service, an
\* error, or a response without message.content
ServiceOutcomes ==
    IF service = "up"
    THEN {[kind |-> "ok", content |-> c] : c \in Contents}
            \cup {[kind |-> "malformed", content |-> <<>>]}
    ELSE {[kind |-> "error", content |-> <<>>]}

\* _sync_summarize storing what it returns, the fallback too
sync_summarize_storing_fallback(sender, subject, body, getErr, svc, putErr) ==
    LET fp     == generate_fingerprint(sender, subject, body)
        got    == get_cached_summary(fp, getErr)
        cached == got.value
        summary == IF svc.kind = "ok" THEN Strip(svc.content)
                   ELSE Fallback(sender, subject, body)
        put    == set_cached_summary(fp, summary, putErr)
    IN  IF Truthy(cached)
        THEN [text |-> cached.text, invoked |-> FALSE,
              stored |-> FALSE, fallback |-> FALSE, table |-> cache]
        ELSE [text |-> summary, invoked |-> TRUE, stored |-> ~putErr,
              fallback |-> svc.kind # "ok", table |-> put.table]

(***************************************************************************)
(* _sync_summarize, ollama_integration.py:13-50.  getErr and putErr say     *)
(* whether the storage fails in get_cached_summary and set_cached_summary,  *)
(* svc is what ollama.chat does if it is called.                            *)
(***************************************************************************)
sync_summarize(sender, subject, body, getErr, svc, putErr) ==
    LET fp     == generate_fingerprint(sender, subject, body)
        got    == get_cached_summary(fp, getErr)
        cached == got.value
        summary == Strip(svc.content)
        put    == set_cached_summary(fp, summary, putErr)
    IN  IF got.raised
        THEN [text |-> Fallback(sender, subject, body), invoked |-> FALSE,
              stored |-> FALSE, fallback |-> TRUE, table |-> cache]
        ELSE IF Truthy(cached)
        THEN [text |-> cached.text, invoked |-> FALSE,
              stored |-> FALSE, fallback |-> FALSE, table |-> cache]
        ELSE IF svc.kind # "ok" \/ put.raised
        THEN [text |-> Fallback(sender, subject, body), invoked |-> TRUE,
              stored |-> FALSE, fallback |-> TRUE,
              table |-> IF svc.kind = "ok" THEN put.table ELSE cache]
        ELSE [text |-> summary, invoked |-> TRUE,
              stored |-> ~putErr, fallback |-> FALSE, table |-> put.table]

\* the record of a call; pruned is whether the row of its input has been
\* deleted by prune_old_cache since
NoCall == [kind |-> "none", input |-> <<>>, getErr |-> FALSE, putErr |-> FALSE,
           svc |-> "none", answer |-> <<>>, invoked |-> FALSE, fallback |-> FALSE,
           text |-> <<>>, pruned |-> FALSE]

\* handlers.py:353 (test_command) calls ollama_summarize, which runs
\* _sync_summarize in the default executor (ollama_integration.py:52-61).
\* The application handles one update at a time (main.py:33 builds it
\* without concurrent updates), so two calls never overlap.
\* what a call that returns leaves behind: the table and the record of the
\* call
Returns(input, getErr, svc, putErr) ==
    LET r == sync_summarize(input[1], input[2], input[3], getErr, svc, putErr)
    IN  /\ cache' = r.table
        /\ prev' = last
        /\ last' = [kind |-> "summarize", input |-> input, getErr |-> getErr,
                    putErr |-> r.invoked /\ svc.kind = "ok" /\ putErr,
                    svc |-> IF r.invoked THEN svc.kind ELSE "none",
                    answer |-> IF r.invoked THEN svc.content ELSE <<>>,
                    invoked |-> r.invoked, fallback |-> r.fallback,
                    text |-> r.text, pruned |-> FALSE]

OllamaSummarize(input, getErr, svc, putErr) ==
    /\ Returns(input, getErr, svc, putErr)
    /\ UNCHANGED <<service, call, now>>
    /\ UNCHANGED pollVars

(***************************************************************************)
(* The same call in steps, ollama_integration.py:18-45: the lookup and the  *)
(* request to the service (lines 20-38), the answer of the service, and     *)
(* the rest of the function once ollama.chat has returned or raised (lines  *)
(* 40-50).  ollama.chat is called with no timeout and ollama_summarize      *)
(* awaits the executor without one (lines 58-61), so a call waits for the   *)
(* service as long as the service takes.  test_command awaits the call, and *)
(* the next update is handled after the handler has returned.               *)
(***************************************************************************)
NoPending == [state |-> "idle", input |-> <<>>, getErr |-> FALSE,
              svc |-> [kind |-> "none", content |-> <<>>]]

\* whether the call gets as far as ollama.chat (lines 23-36)
InvokesService(input, getErr) ==
    LET got == get_cached_summary(generate_fingerprint(input[1], input[2], input[3]),
                                  getErr)
    IN  ~got.raised /\ ~Truthy(got.value)

\* lines 18-25: a call that finds its summary in the cache returns at once
ReturnCached(input, getErr) ==
    /\ call.state = "idle"
    /\ ~InvokesService(input, getErr)
    /\ Returns(input, getErr, [kind |-> "none", content |-> <<>>], FALSE)
    /\ UNCHANGED <<service, call, now>>
    /\ UNCHANGED pollVars

\* lines 18-38: a call that misses the cache sends the request
ChatCall(input, getErr) ==
    /\ call.state = "idle"
    /\ InvokesService(input, getErr)
    /\ call' = [state |-> "in_chat", input |-> input, getErr |-> getErr,
                svc |-> [kind |-> "none", content |-> <<>>]]
    /\ UNCHANGED <<service, cache, prev, last, now>>
    /\ UNCHANGED pollVars

\* the service answers, or the request fails
ServiceAnswers(svc) ==
    /\ call.state = "in_chat"
    /\ call' = [call EXCEPT !.state = "answered", !.svc = svc]
    /\ UNCHANGED <<service, cache, prev, last, now>>
    /\ UNCHANGED pollVars

\* lines 40-50: ollama.chat has returned or raised; the call returns
ChatReturns(putErr) ==
    /\ call.state = "answered"
    /\ Returns(call.input, call.getErr, call.svc, putErr)
    /\ call' = NoPending
    /\ UNCHANGED <<service, now>>
    /\ UNCHANGED pollVars

\* the service becomes unavailable, or available again
ServiceChange ==
    /\ job = "idle"
    /\ service' = IF service = "up" THEN "down" ELSE "up"
    /\ UNCHANGED <<cache, prev, last, call, now>>
    /\ UNCHANGED pollVars

\* a prune that also deletes the rows written exactly at the cutoff
prune_old_cache_inclusive(days, storageError) ==
    LET cutoff == now - days * Day
    IN  IF storageError THEN cache
        ELSE [fp \in DOMAIN cache |->
                IF cache[fp].present /\ cache[fp].timestamp <= cutoff
                THEN NoRow ELSE cache[fp]]

\* cache.py:69-82: deletes the rows whose timestamp is before the cutoff; a
\* storage error is logged and nothing is deleted
prune_old_cache(days, storageError) ==
    LET cutoff == now - days * Day
    IN  IF storageError THEN cache
        ELSE [fp \in DOMAIN cache |->
                IF cache[fp].present /\ cache[fp].timestamp < cutoff
                THEN NoRow ELSE cache[fp]]

\* jobs.py:175-180 (prune_cached_entries), every 86400 s (main.py:66)
PruneCachedEntries(storageError) ==
    LET table == prune_old_cache(RetentionDays, storageError)
        fp == generate_fingerprint(last.input[1], last.input[2], last.input[3])
    IN  /\ cache' = table
        /\ last' = IF last.kind = "summarize" /\ cache[fp].present
                       /\ ~table[fp].present
                    THEN [last EXCEPT !.pruned = TRUE] ELSE last
        /\ UNCHANGED <<prev, service, call, now>>
        /\ UNCHANGED pollVars

\* the instants of the clock at which something happens: 400 days, 365 days
\* and 10 days before the last one, and the last one
Instants == <<0, 35 * Day, 390 * Day, 400 * Day>>

\* time passes until the timestamp of a row falls before the cutoff of the
\* prune job (365 days, jobs.py:180)
RowExpires(fp) ==
    /\ cache[fp].present
    /\ cache[fp].timestamp >= now - RetentionDays * Day
    /\ cache[fp].timestamp + RetentionDays * Day + 1 <= Instants[Len(Instants)]
    /\ now' = cache[fp].timestamp + RetentionDays * Day + 1
    /\ UNCHANGED <<cache, prev, last, service, call>>
    /\ UNCHANGED pollVars

(***************************************************************************)
(* The cache on its own (cache.py): puts, gets and prunes in any order, at  *)
(* the instants of the clock.                                               *)
(***************************************************************************)
\* what the callers have put under a fingerprint: asked is the summary of
\* the latest put, kept the summary of the latest put the storage accepted,
\* each with its time; both lapse when a prune passes whose cutoff is later
NoPut == [asked |-> None, askedAt |-> 0, kept |-> None, keptAt |-> 0, puts |-> 0]
\* the horizons of a prune, in days: the one of the job and a short one
Horizons == {RetentionDays, 10}
\* the summaries put into the cache
CacheSummaries == {<<>>, <<"x">>}
\* no function has been applied yet
NoApplication == [kind |-> "none"]

\* the variables the cache operations leave alone
cacheFrame == <<creds, unread, histories, sent, job, pending, curDir, outcome,
                calls, result, jobs, notice, meta, service, prev, last, call>>

\* cache.py:54-67 called with (fp, summary)
CachePut(fp, summary, storageError) ==
    LET r == set_cached_summary(fp, summary, storageError)
    IN  /\ cache' = r.table
        /\ shadow' = [shadow EXCEPT ![fp] =
                [asked |-> Str(summary), askedAt |-> now,
                 kept |-> IF storageError THEN @.kept ELSE Str(summary),
                 keptAt |-> IF storageError THEN @.keptAt ELSE now,
                 puts |-> IF @.puts < 2 THEN @.puts + 1 ELSE 2]]
        /\ applied' = [kind |-> "put", fp |-> fp, summary |-> summary,
                       err |-> storageError, raised |-> r.raised]
        /\ UNCHANGED now
        /\ UNCHANGED cacheFrame

\* cache.py:39-52 called with fp
CacheGet(fp, storageError) ==
    LET r == get_cached_summary(fp, storageError)
    IN  /\ applied' = [kind |-> "get", fp |-> fp, err |-> storageError,
                       raised |-> r.raised, value |-> r.value]
        /\ UNCHANGED <<cache, shadow, now>>
        /\ UNCHANGED cacheFrame

\* cache.py:69-82 called with days
CachePrune(days, storageError) ==
    LET table == prune_old_cache(days, storageError)
        cutoff == now - days * Day
    IN  /\ cache' = table
        /\ shadow' = [fp \in DOMAIN shadow |->
                [shadow[fp] EXCEPT
                    !.asked = IF shadow[fp].askedAt < cutoff THEN None ELSE @,
                    !.kept = IF ~storageError /\ shadow[fp].keptAt < cutoff
                             THEN None ELSE @]]
        /\ applied' = [kind |-> "prune", days |-> days, err |-> storageError,
                       deleted |-> Cardinality({fp \in DOMAIN cache :
                                        cache[fp].present /\ ~table[fp].present})]
        /\ UNCHANGED now
        /\ UNCHANGED cacheFrame

\* the clock moves on to a later instant
TimePasses ==
    /\ \E i \in 1..Len(Instants) : Instants[i] > now /\ now' = Instants[i]
    /\ UNCHANGED <<cache, shadow, applied>>
    /\ UNCHANGED cacheFrame

CacheNext ==
    \/ \E fp \in Fingerprints, summary \in CacheSummaries, storageError \in BOOLEAN :
            CachePut(fp, summary, storageError)
    \/ \E fp \in Fingerprints, storageError \in BOOLEAN : CacheGet(fp, storageError)
    \/ \E days \in Horizons, storageError \in BOOLEAN : CachePrune(days, storageError)
    \/ TimePasses

(***************************************************************************)
(* Functions of the program applied to inputs of their own.                 *)
(***************************************************************************)
\* the variables the application of a function leaves alone; a behaviour
\* applies one function to one input
appliedFrame == <<creds, unread, histories, sent, job, pending, curDir, outcome,
                  calls, result, jobs, notice, shadow, meta, service, cache,
                  prev, last, call, now>>

\* the fields of the triples, with and without the separator
FingerprintFields ==
    {<<"a">>, <<"a", "|", "b">>, <<"b", "|", "c">>, <<"c">>, <<"c", Surrogate>>}
Triples == FingerprintFields \X FingerprintFields \X FingerprintFields

\* cache.py:31-37 applied to two triples
Fingerprint(x, y) ==
    /\ applied = NoApplication
    /\ applied' = [kind |-> "fingerprint", x |-> x, y |-> y,
                   fx |-> generate_fingerprint(x[1], x[2], x[3]),
                   fy |-> generate_fingerprint(y[1], y[2], y[3])]
    /\ UNCHANGED appliedFrame

FingerprintNext == \E x \in Triples, y \in Triples : Fingerprint(x, y)

(***************************************************************************)
(* strip_html_tags, gmail_api.py:60-80, on markup given as a sequence of    *)
(* elements: a run of text, or a tag with its name, the quoted href it      *)
(* carries (none: <<>>) and whether a line break stands inside the tag.     *)
(***************************************************************************)
\* how many elements a markup has at most
MaxElements == 4

TextRun(t) == [tag |-> "", href |-> <<>>, newline |-> FALSE, text |-> t]
Tag(name, href, newline) == [tag |-> name, href |-> href, newline |-> newline, text |-> ""]
IsTag(e) == e.tag # ""

\* anchor targets, in pieces
Targets == {<<"http://good/", "1">>, <<"http://good/", "2">>, <<"http://good/", "3">>,
            <<"http://good/", "4">>, <<"http://x/", "UNSUBSCRIBE">>}
Elements == {TextRun("Hi"), Tag("p", <<>>, FALSE), Tag("p", <<>>, TRUE)}
                \cup {Tag("a", l, FALSE) : l \in Targets}
Markups == UNION {[1..n -> Elements] : n \in 0..MaxElements}

\* str.lower() on a piece
LowerPiece(p) == IF p = "UNSUBSCRIBE" THEN "unsubscribe" ELSE p
Lower(l) == [i \in DOMAIN l |-> LowerPiece(l[i])]
\* gmail_api.py:75-76
Blocklist == {"unsubscribe", "mailto:", "tel:", "track", "click", "open.", "list-"}
\* any(x in l.lower() for x in [...])
Blocked(l) == \E x \in Blocklist : Contains(Lower(l), x)

\* gmail_api.py:65: re.findall of <a[^>]+href=["']([^"']+)["'], where [^>]
\* matches a line break too
FindLinks(markup) ==
    LET anchors == SelectSeq(markup, LAMBDA e : e.tag = "a" /\ e.href # <<>>)
    IN  [i \in DOMAIN anchors |-> anchors[i].href]

\* gmail_api.py:68-69: re.sub of <.*?> by a blank, where . matches no line
\* break (the pattern is compiled without DOTALL): a tag with a line break
\* inside is no match and stays
SubTags(markup) ==
    [i \in DOMAIN markup |->
        IF IsTag(markup[i]) /\ ~markup[i].newline THEN TextRun(" ") ELSE markup[i]]

\* list(dict.fromkeys(l)): the first occurrence of each element, in order
RECURSIVE FromKeys(_)
FromKeys(l) ==
    IF l = <<>> THEN <<>>
    ELSE LET front == FromKeys(SubSeq(l, 1, Len(l) - 1))
         IN  IF Contains(front, l[Len(l)]) THEN front ELSE Append(front, l[Len(l)])

\* gmail_api.py:60-80; the returned string is text, followed when block is
\* not empty by "\n\nLinks:\n" and the lines of block
strip_html_tags(markup) ==
    LET links == FindLinks(markup)
        good_links == SelectSeq(links, LAMBDA l : ~Blocked(l))
        unique_links == Take(FromKeys(good_links), 3)
    IN  [text |-> SubTags(markup), block |-> unique_links]

StripHtmlTags(markup) ==
    /\ applied = NoApplication
    /\ applied' = [kind |-> "strip", markup |-> markup, out |-> strip_html_tags(markup)]
    /\ UNCHANGED appliedFrame

StripNext == \E markup \in Markups : StripHtmlTags(markup)

(***************************************************************************)
(* get_email_body, gmail_api.py:92-128, on payload trees. The data of a     *)
(* part is absent, or bytes that decode to a text, or bytes that are not     *)
(* UTF-8 (a part in another charset, an image).                             *)
(***************************************************************************)
\* how many parts the payload has at most
MaxParts == 2

NoData == [present |-> FALSE, decodable |-> TRUE, content |-> <<>>]
Data(content) == [present |-> TRUE, decodable |-> TRUE, content |-> content]
Undecodable == [present |-> TRUE, decodable |-> FALSE, content |-> <<>>]

Part(mimeType, data) ==
    [mimeType |-> mimeType, data |-> data, multi |-> FALSE, parts |-> <<>>]
Multipart(parts) ==
    [mimeType |-> "multipart/mixed", data |-> NoData, multi |-> TRUE, parts |-> parts]

Leaves ==
    {Part("text/plain", d) :
        d \in {NoData, Data(<<TextRun("Hi")>>), Data(<<TextRun("null")>>), Undecodable}}
    \cup {Part("text/html", d) :
        d \in {NoData, Data(<<Tag("p", <<>>, FALSE), TextRun("Yo")>>), Undecodable}}
    \cup {Part("image/png", Undecodable)}
Nested == {Multipart(ps) : ps \in UNION {[1..n -> Leaves] : n \in 0..2}}
Payloads ==
    Leaves \cup {Multipart(ps) : ps \in UNION {[1..n -> Leaves \cup Nested] : n \in 0..MaxParts}}

\* gmail_api.py:87-89: ' '.join(text.split())
remove_double_whitespace(text) == SelectSeq(text, LAMBDA e : e # TextRun(" "))
\* the text of strip_html_tags as a string: the Links block of the markups
\* here is empty
StrippedText(markup) == strip_html_tags(markup).text
\* text.strip().lower() != "null"
NotNull(text) == text # <<TextRun("null")>>
\* gmail_api.py:128
Sentinel == <<TextRun("(No readable content found)")>>

Returned(body) == [raised |-> FALSE, found |-> TRUE, body |-> body]
Raises == [raised |-> TRUE, found |-> TRUE, body |-> <<>>]
NotFound == [raised |-> FALSE, found |-> FALSE, body |-> <<>>]

\* gmail_api.py:100-106: the loop over the text/plain parts; decode() raises
\* UnicodeDecodeError on bytes that are not UTF-8
RECURSIVE PlainLoop(_)
PlainLoop(parts) ==
    IF parts = <<>> THEN NotFound
    ELSE LET part == Head(parts)
         IN  IF part.mimeType = "text/plain" /\ part.data.present
             THEN IF ~part.data.decodable THEN Raises
                  ELSE IF part.data.content # <<>> /\ NotNull(part.data.content)
                       THEN Returned(remove_double_whitespace(part.data.content))
                       ELSE PlainLoop(Tail(parts))
             ELSE PlainLoop(Tail(parts))

\* gmail_api.py:107-113: the loop over the text/html parts
RECURSIVE HtmlLoop(_)
HtmlLoop(parts) ==
    IF parts = <<>> THEN NotFound
    ELSE LET part == Head(parts)
         IN  IF part.mimeType = "text/html" /\ part.data.present
             THEN IF ~part.data.decodable THEN Raises
                  ELSE Returned(remove_double_whitespace(StrippedText(part.data.content)))
             ELSE HtmlLoop(Tail(parts))

\* gmail_api.py:92-128
RECURSIVE get_email_body(_)
\* gmail_api.py:114-118: the loop over the nested parts
RECURSIVE NestedLoop(_)
NestedLoop(parts) ==
    IF parts = <<>> THEN NotFound
    ELSE LET part == Head(parts)
         IN  IF part.multi
             THEN LET res == get_email_body(part)
                  IN  IF res.raised THEN Raises
                      ELSE IF res.body # <<>> /\ NotNull(res.body) THEN Returned(res.body)
                      ELSE NestedLoop(Tail(parts))
             ELSE NestedLoop(Tail(parts))

get_email_body(payload) ==
    IF payload.multi
    THEN LET plain == PlainLoop(payload.parts)
             html == HtmlLoop(payload.parts)
             nested == NestedLoop(payload.parts)
         IN  IF plain.found THEN plain
             ELSE IF html.found THEN html
             ELSE IF nested.found THEN nested
             ELSE Returned(Sentinel)
    ELSE IF payload.data.present
         THEN IF ~payload.data.decodable THEN Raises
              ELSE IF payload.mimeType = "text/html"
                   THEN Returned(remove_double_whitespace(StrippedText(payload.data.content)))
                   ELSE Returned(remove_double_whitespace(payload.data.content))
         ELSE Returned(Sentinel)

GetEmailBody(payload) ==
    /\ applied = NoApplication
    /\ applied' = [kind |-> "body", payload |-> payload, out |-> get_email_body(payload)]
    /\ UNCHANGED appliedFrame

BodyNext == \E payload \in Payloads : GetEmailBody(payload)

(***************************************************************************)
(* The watermark records, <email>_meta.json: written at authorization       *)
(* (handlers.py:148-149), read by process_user_account (jobs.py:47-62) and  *)
(* by list_command, rewritten by label_command (handlers.py:433-450).       *)
(* A record is missing, or a file that can or cannot be opened and holds a  *)
(* JSON object, another JSON value, or no JSON at all.                      *)
(***************************************************************************)
MissingFile == [exists |-> FALSE, openable |-> TRUE, json |-> "none",
                hasTime |-> FALSE, time |-> 0, hasLabel |-> FALSE, label |-> <<>>]
Garbage == [MissingFile EXCEPT !.exists = TRUE, !.json = "garbage"]
Array == [MissingFile EXCEPT !.exists = TRUE, !.json = "array"]
Object(hasTime, time, hasLabel, label) ==
    [exists |-> TRUE, openable |-> TRUE, json |-> "object",
     hasTime |-> hasTime, time |-> time, hasLabel |-> hasLabel, label |-> label]
Locked(file) == [file EXCEPT !.openable = FALSE]

\* the start_time of the end-to-end scenario
T == 1000
MetaFiles ==
    {MissingFile, Garbage, Array, Object(FALSE, 0, FALSE, <<>>),
     Object(TRUE, 0, FALSE, <<>>), Object(TRUE, T, FALSE, <<>>),
     Object(TRUE, T, TRUE, <<"w">>), Locked(Object(TRUE, T, FALSE, <<>>))}
NoMetaFiles == [a \in Accounts |-> MissingFile]
\* " ".join(context.args[1:]) with at least one argument (handlers.py:409-414)
LabelTexts == {<<"w">>, <<"v">>}
\* how open(meta_path, 'w') and json.dump end (handlers.py:445-450)
WriteOutcomes == {"written", "open_failed", "dump_failed"}

\* handlers.py:433-450 on the record of the selected account
label_command(file, descriptor, write) ==
    LET loaded == file.exists /\ file.openable /\ file.json # "garbage"
        \* meta = {} unless json.load gave a value (lines 435-441)
        isDict == ~loaded \/ file.json = "object"
        updated == Object(loaded /\ file.hasTime, IF loaded THEN file.time ELSE 0,
                          TRUE, descriptor)
    IN  IF ~isDict
        \* meta['descriptor'] = descriptor on a list raises TypeError (line 443)
        THEN [file |-> file, reply |-> "raised"]
        ELSE IF (file.exists /\ ~file.openable) \/ write = "open_failed"
        THEN [file |-> file, reply |-> "failed"]
        \* open(..., 'w') has emptied the file when json.dump fails
        ELSE IF write = "dump_failed"
        THEN [file |-> Garbage, reply |-> "failed"]
        ELSE [file |-> updated, reply |-> "updated"]

\* the variables the commands on the watermark records leave alone
metaFrame == <<creds, unread, histories, sent, job, pending, curDir, outcome,
               calls, result, jobs, notice, shadow, service, cache, prev, last,
               call, now>>

\* handlers.py:405-450: /label on an account of the list of line 419
LabelCommand(a, descriptor, write) ==
    /\ ~IsLegacy(a) /\ a \in Registered /\ IsCredentialName(CredFile(a))
    /\ LET r == label_command(meta[a], descriptor, write)
       IN  /\ meta' = [meta EXCEPT ![a] = r.file]
           /\ applied' = [kind |-> "label", account |-> a, descriptor |-> descriptor,
                          write |-> write, reply |-> r.reply]
    /\ UNCHANGED metaFrame

\* gmail_api.py:130-144: the query of list_messages(service,
\* after_timestamp=start_ts), unread_only being True
ListQuery(after_timestamp) ==
    [unread |-> TRUE, after |-> after_timestamp # 0, time |-> after_timestamp]

\* jobs.py:47-62: start_ts and descriptor from the record; open() stands
\* outside the try (line 56)
LoadWatermark(file) ==
    IF ~file.exists THEN [raised |-> FALSE, start_ts |-> 0, descriptor |-> <<>>]
    ELSE IF ~file.openable THEN [raised |-> TRUE, start_ts |-> 0, descriptor |-> <<>>]
    ELSE IF file.json # "object" THEN [raised |-> FALSE, start_ts |-> 0, descriptor |-> <<>>]
    ELSE [raised |-> FALSE, start_ts |-> IF file.hasTime THEN file.time ELSE 0,
          descriptor |-> IF file.hasLabel THEN file.label ELSE <<>>]

\* jobs.py:47-62 and the listing of line 72 for an account, leaving out what
\* lies between them
PollListing(a) ==
    /\ a \in Registered
    /\ LET w == LoadWatermark(meta[a])
       IN  applied' = [kind |-> "poll", account |-> a, raised |-> w.raised,
                       start_ts |-> w.start_ts, file |-> meta[a],
                       query |-> ListQuery(w.start_ts)]
    /\ UNCHANGED meta
    /\ UNCHANGED metaFrame

WatermarkNext ==
    \/ \E a \in Accounts, descriptor \in LabelTexts, write \in WriteOutcomes :
            LabelCommand(a, descriptor, write)
    \/ \E a \in Accounts : PollListing(a)

SumInit ==
    /\ cache = [fp \in Fingerprints |-> NoRow]
    /\ prev = NoCall
    /\ last = NoCall
    /\ call = NoPending
    /\ now = 0

(***************************************************************************)
(* jobs.py:96-103 as a function of the account's address, its descriptor    *)
(* and the summary, applied to texts around the threshold.                  *)
(***************************************************************************)
\* how far below and above the threshold the lengths of the texts go
Margin == 4
Emails == {<<>>, <<"x", "@", "m">>}
Descriptors == {<<>>, <<"w">>}
Lengths == (0..Margin) \cup ((NotifierLimit - 2 * Margin)..(NotifierLimit + Margin))
\* a text of n characters, the last d of them dots
TextOf(n, d) == [i \in 1..n |-> IF i > n - d THEN "." ELSE "c"]
Summaries == {TextOf(n, d) : n \in Lengths, d \in 0..Len(Marker)}

NoNotice == [made |-> FALSE, email |-> <<>>, descriptor |-> <<>>,
             summary |-> <<>>, text |-> <<>>]

PrepareNotice(email, descriptor, summary) ==
    /\ notice' = [made |-> TRUE, email |-> email, descriptor |-> descriptor,
                  summary |-> summary,
                  text |-> NotifierText(email, descriptor, summary)]
    /\ UNCHANGED <<creds, unread, histories, sent, job, pending, curDir, outcome,
                   calls, result, jobs>>
    /\ UNCHANGED <<service, cache, prev, last, call, now, shadow, applied, meta>>

PollInit ==
    /\ unread = [a \in Accounts |-> {}]
    /\ histories = [t \in Tenants |-> AbsentFile]
    /\ sent = <<>>
    /\ job = "idle"
    /\ pending = {}
    /\ curDir = 0
    /\ outcome = NoOutcome
    /\ calls = NoCalls
    /\ result = "none"
    /\ jobs = 0
    /\ notice = NoNotice
    /\ shadow = [fp \in Fingerprints |-> NoPut]
    /\ applied = NoApplication

\* any set of credential files, in any state
Init ==
    /\ creds \in [Accounts -> CredStates]
    /\ service \in {"up", "down"}
    /\ PollInit
    /\ SumInit
    /\ meta = NoMetaFiles

\* the summarizer alone: no account is linked
InitSummarizer ==
    /\ creds = [a \in Accounts |-> "absent"]
    /\ service \in {"up", "down"}
    /\ PollInit
    /\ SumInit
    /\ meta = NoMetaFiles

\* every account is authorized, with any watermark record
InitWatermark ==
    /\ creds = [a \in Accounts |-> "valid"]
    /\ service = "up"
    /\ PollInit
    /\ SumInit
    /\ meta \in [Accounts -> MetaFiles]

Next ==
    \/ StartPollEmails
    \/ \E t \in Tenants : StartPollUserNow(t)
    \/ \E a \in Accounts, refreshOk \in BOOLEAN : ProcessUserAccount(a, refreshOk)
    \/ FinishJob
    \/ JobReturns
    \/ \E a \in Accounts, m \in MsgIds : Arrive(a, m)
    \/ ServiceChange

\* a call of the summarizer on any message, with any behaviour of the cache
\* storage and of the service
Summarize ==
    \E input \in Inputs, getErr \in BOOLEAN, putErr \in BOOLEAN :
        \E svc \in ServiceOutcomes : OllamaSummarize(input, getErr, svc, putErr)

\* answers of the service in which the model has left its reasoning
ReasoningStart == "<think>"
ReasoningEnd == "</think>"
ReasoningContents ==
    {<<ReasoningStart, "r", ReasoningEnd, "x">>, <<"x", ReasoningStart, ReasoningEnd>>,
     <<" ", ReasoningStart, "r", ReasoningEnd, " ">>, <<"x">>}

ReasoningOutcomes ==
    IF service = "up"
    THEN {[kind |-> "ok", content |-> c] : c \in ReasoningContents}
    ELSE {[kind |-> "error", content |-> <<>>]}

\* a call of the summarizer that the service, if asked and up, answers with
\* or without reasoning
SummarizeReasoned ==
    \E input \in Inputs, getErr \in BOOLEAN, putErr \in BOOLEAN :
        \E svc \in ReasoningOutcomes : OllamaSummarize(input, getErr, svc, putErr)

SumNext ==
    \/ Summarize
    \/ \E storageError \in BOOLEAN : PruneCachedEntries(storageError)
    \/ \E fp \in Fingerprints : RowExpires(fp)
    \/ ServiceChange

SpecSummarizer == InitSummarizer /\ [][SumNext]_vars

\* the text for the Notifier, for any account and summary
Notify ==
    \E email \in Emails, descriptor \in Descriptors, summary \in Summaries :
        PrepareNotice(email, descriptor, summary)

SpecNotice == InitSummarizer /\ [][Notify]_vars

\* the watermark records under /label and the polls
SpecWatermark == InitWatermark /\ [][WatermarkNext]_vars

\* the summarizer with a service that reasons aloud
SpecReasoning == InitSummarizer /\ [][SummarizeReasoned]_vars

\* the body of any payload
SpecBody == InitSummarizer /\ [][BodyNext]_vars

\* the text and links of any markup
SpecStrip == InitSummarizer /\ [][StripNext]_vars

\* the fingerprints of any two triples
SpecFingerprint == InitSummarizer /\ [][FingerprintNext]_vars

\* the cache under any sequence of its operations
SpecCache == InitSummarizer /\ [][CacheNext]_vars

\* the calls of the summarizer in steps
CallNext ==
    \/ \E input \in Inputs, getErr \in BOOLEAN : ReturnCached(input, getErr)
    \/ \E input \in Inputs, getErr \in BOOLEAN : ChatCall(input, getErr)
    \/ \E svc \in ServiceOutcomes : ServiceAnswers(svc)
    \/ \E putErr \in BOOLEAN : ChatReturns(putErr)
    \/ ServiceChange

\* The executor thread runs on once ollama.chat has returned or raised;
\* nothing makes the service answer.
SpecOllamaCall ==
    InitSummarizer /\ [][CallNext]_vars
        /\ WF_vars(\E putErr \in BOOLEAN : ChatReturns(putErr))

Spec == Init /\ [][Next]_vars

(***************************************************************************)
(* Properties of the polling jobs (Spec).                                   *)
(*                                                                         *)
(* No action of Spec writes histories or sent: every run of                 *)
(* process_user_account that obtains a client ends at line 69, before the   *)
(* listing (line 72), the deliveries (line 109) and save_history (line      *)
(* 134).  The Seen-Set of every account therefore stays the initial, empty  *)
(* one, and every id the provider lists is unseen.                          *)
(***************************************************************************)
\* Seen-Set bound, jobs.py:132
K == 20

Range(f) == {f[i] : i \in DOMAIN f}
Ended == result \in {"completed", "aborted"}
ClientObtained(a) == outcome[a] \in {"raised_history", "loaded"}
ClientFailed(a) == outcome[a] \in {"skipped", "raised_credential"}
\* the ids list_messages would return for the account: its unread ones
\* (gmail_api.py:137-144; at most 10, and MaxMsgs is below that)
Listed(a) == unread[a]
Deliveries(a, m) == {i \in DOMAIN sent : sent[i].account = a /\ sent[i].id = m}
Seen(a, m) ==
    histories[a[1]].state = "list" /\ m \in Range(histories[a[1]].ids)
IsSuffix(o, t) ==
    Len(o) <= Len(t) /\ SubSeq(t, Len(t) - Len(o) + 1, Len(t)) = o
Orderings(S) ==
    {o \in [1..Cardinality(S) -> S] : \A i, j \in DOMAIN o : o[i] = o[j] => i = j}

\* C2 (as claimed): when account A's client cannot be obtained in a
\* poll_emails cycle, every new message of another account B with a valid
\* credential is delivered and recorded in B's persisted Seen-Set by the end
\* of the cycle.
C2_Isolation ==
    \A A \in Accounts, B \in Accounts :
        (job = "poll_emails" /\ Ended /\ A # B /\ ClientFailed(A)
            /\ creds[B] = "valid" /\ unread[B] # {})
        => \A m \in Listed(B) : Deliveries(B, m) # {} /\ Seen(B, m)

\* C3 (as claimed): no exception leaves process_user_account, and a
\* poll_emails cycle that is over has called process_user_account for every
\* registered account.
C3_NoPropagation ==
    /\ \A a \in Accounts : ~Raised(outcome[a])
    /\ (job = "poll_emails" /\ Ended) => \A a \in Registered : outcome[a] # "none"

\* C4 (as claimed): once the job is over, every id listed for an account
\* whose client was obtained is in the account's persisted Seen-Set.
C4_UnseenRecorded ==
    \A a \in Accounts :
        (Ended /\ ClientObtained(a)) => \A m \in Listed(a) : Seen(a, m)

\* C6 (as claimed): after a batch with new ids the persisted Seen-Set is a
\* list of at most K ids that ends with the batch's new ids in processing
\* order.
C6_SeenSetBounded ==
    \A a \in Accounts :
        (Ended /\ ClientObtained(a) /\ Listed(a) # {})
        => /\ histories[a[1]].state = "list"
           /\ Len(histories[a[1]].ids) <= K
           /\ \E o \in Orderings(Listed(a)) : IsSuffix(o, histories[a[1]].ids)

\* C7 (as claimed): a run of process_user_account over n > 0 unseen ids
\* makes a summarize call, delivers each id exactly once and persists the
\* Seen-Set grown by the n ids.
C7_OnePerMessage ==
    \A a \in Accounts :
        (Ended /\ ClientObtained(a) /\ Listed(a) # {})
        => /\ last.kind = "summarize"
           /\ \A m \in Listed(a) : Cardinality(Deliveries(a, m)) = 1
           /\ histories[a[1]].state = "list"
           /\ Len(histories[a[1]].ids) = Cardinality(Listed(a))

\* the message the provider returns for an id (messages.get)
Envelope(m) == [sender |-> <<"a">>, subject |-> <<"s">>, body |-> <<"b">>]
\* jobs.py:87-89 and 97-99: subject and summary of a linked account carry the
\* account's prefix (the label when no descriptor is set)
PrefixedSubject(a, subject) ==
    IF IsLegacy(a) THEN subject ELSE <<"[">> \o a[2] \o <<"] ">> \o subject
PrefixedSummary(a, summary) == PrependPrefix(a[2], <<>>, summary)

\* C9 (as claimed): with the summarization service down, every new message
\* of an account whose client was obtained is still delivered, with the
\* fallback text, and recorded as seen in the same batch.
C9_FallbackDelivered ==
    \A a \in Accounts :
        (Ended /\ ClientObtained(a) /\ service = "down")
        => \A m \in Listed(a) :
              /\ Seen(a, m)
              /\ \E i \in Deliveries(a, m) :
                    sent[i].text =
                        PrefixedSummary(a,
                            Fallback(Envelope(m).sender,
                                     PrefixedSubject(a, Envelope(m).subject),
                                     Envelope(m).body))

\* C16 (as claimed): the run of an account whose client was obtained loads
\* the account's own Seen-Set record, a record that no other registered
\* account (of the same tenant or another) reads or writes.
C16_PerAccountStore ==
    \A a \in Accounts :
        ClientObtained(a)
        => /\ outcome[a] = "loaded"
           /\ \A b \in Registered \ {a} : HistoryFile(b[1]) # HistoryFile(a[1])

\* C17 (as claimed): loading the Seen-Set of an account whose record is
\* missing or unreadable raises nothing and yields the empty sequence, and
\* the run goes on.
C17_MissingRecordIsEmpty ==
    \A a \in Accounts :
        (ClientObtained(a) /\ histories[a[1]].state # "list")
        => LET h == load_history(a[1], {"email"})
           IN  ~h.raised /\ h.value = <<>> /\ outcome[a] = "loaded"

\* C18 (as claimed): what a cycle is about to process are registered
\* accounts only, and a poll_emails cycle that has returned has called
\* process_user_account exactly once for every registered account.
C18_EachAccountOnce ==
    /\ pending \subseteq Registered
    /\ (job = "poll_emails" /\ result = "completed")
        => \A a \in Registered : calls[a] = 1

(***************************************************************************)
(* Properties of the summarizer (SpecSummarizer): prev and last are two     *)
(* successive calls of _sync_summarize.                                     *)
(***************************************************************************)
Successive ==
    prev.kind = "summarize" /\ last.kind = "summarize" /\ prev.input = last.input

C8_IdempotentDespitePrune ==
    (Successive /\ ~prev.fallback /\ prev.text # <<>>
        /\ ~prev.putErr /\ ~last.getErr)
    => ~last.invoked /\ last.text = prev.text

C19_CallCutOff ==
    (call.state = "in_chat") ~> (call.state = "idle")

(***************************************************************************)
(* Properties of the text made ready for the Notifier (SpecNotice).         *)
(***************************************************************************)
Prefixed == PrependPrefix(notice.email, notice.descriptor, notice.summary)

C10_CacheOutage ==
    (last.kind = "summarize" /\ last.getErr /\ (last.svc = "ok" => last.putErr))
    => /\ last.invoked
       /\ last.svc = "ok" => (~last.fallback /\ last.text = Strip(last.answer))

\* the cache holds a summary of the input, the storage fails on get and put,
\* and the call returns a different, fresh answer of the service
C10_Witness ==
    /\ last.kind = "summarize" /\ last.getErr /\ last.putErr
    /\ last.invoked /\ last.svc = "ok" /\ last.text # <<>>
    /\ LET fp == generate_fingerprint(last.input[1], last.input[2], last.input[3])
       IN  cache[fp].present /\ cache[fp].summary # <<>>
              /\ cache[fp].summary # last.text

\* a text with a reasoning segment: a start marker and an end marker after it
HasReasoning(t) ==
    \E i \in DOMAIN t : \E j \in DOMAIN t :
        i < j /\ t[i] = ReasoningStart /\ t[j] = ReasoningEnd

\* C26: the summary a call returns after asking the service, and every
\* summary in the cache, has no reasoning segment.
C26_NoReasoning ==
    /\ (last.kind = "summarize" /\ last.invoked /\ ~last.fallback)
            => ~HasReasoning(last.text)
    /\ \A fp \in Fingerprints : cache[fp].present => ~HasReasoning(cache[fp].summary)

\* the fallback texts of the messages
Fallbacks == {Fallback(i[1], i[2], i[3]) : i \in Inputs}
\* the call asked the service and the service failed
ServiceFailed(c) == c.kind = "summarize" /\ c.invoked /\ c.svc # "ok"
\* the row of the message of a call
RowOf(c) == cache[generate_fingerprint(c.input[1], c.input[2], c.input[3])]

\* C28 as stated: no row of the cache holds a fallback text; after a call in
\* which the service failed the cache has no row for the message, and the
\* next call on the same message invokes the service.
C28_NoEntryAfterFailure ==
    /\ \A fp \in Fingerprints : cache[fp].present => cache[fp].summary \notin Fallbacks
    /\ ServiceFailed(last) => last.fallback /\ ~RowOf(last).present
    /\ (Successive /\ ServiceFailed(prev)) => last.invoked

\* C28, amended: no row of the cache holds a fallback text; after a call
\* that read the cache and in which the service failed, the cache has no
\* row with a summary for the message, and the next call on the same message
\* invokes the service; after a call that could not read the cache and in
\* which the service failed, the next call invokes the service or returns a
\* summary stored earlier, never the fallback of a call before it.
C28_FallbackNotStored ==
    /\ \A fp \in Fingerprints : cache[fp].present => cache[fp].summary \notin Fallbacks
    /\ ServiceFailed(last) =>
            /\ last.fallback
            /\ ~last.getErr => ~(RowOf(last).present /\ RowOf(last).summary # <<>>)
    /\ (Successive /\ ServiceFailed(prev)) =>
            /\ ~prev.getErr => last.invoked
            /\ ~last.invoked => ~last.fallback /\ last.text \notin Fallbacks

\* the service fails in a call and answers in the next call on the same
\* message, whose summary is returned and stored
C28_Witness ==
    /\ Successive /\ ServiceFailed(prev) /\ prev.fallback /\ ~prev.getErr
    /\ last.invoked /\ last.svc = "ok" /\ ~last.fallback /\ ~last.putErr
    /\ last.text # <<>> /\ last.text \notin Fallbacks
    /\ RowOf(last).present /\ RowOf(last).summary = last.text

(***************************************************************************)
(* Properties of the cache (SpecCache).                                     *)
(***************************************************************************)
\* a step of the cache that is a put, not the clock moving on
PutStep == now' = now /\ applied'.kind = "put"
\* the put leaves the rows of the other fingerprints as they were
OthersKept == \A g \in Fingerprints \ {applied'.fp} : cache'[g] = cache[g]

\* C21 as stated: a get returns what the latest put since the last prune of
\* the fingerprint asked to store, absent when there was none, and never
\* raises; a put raises nothing and leaves the other fingerprints' rows alone.
C21_RoundTrip ==
    /\ [](applied.kind = "get" =>
            /\ ~applied.raised
            /\ applied.value = shadow[applied.fp].asked)
    /\ [](applied.kind = "put" => ~applied.raised)
    /\ [][PutStep => OthersKept]_vars

\* C21, amended: a get the storage serves returns what the latest put the
\* storage accepted since the last prune of the fingerprint stored, absent
\* when there was none; a get never raises and returns absent for a
\* fingerprint nothing was stored under; a put never raises and leaves the
\* other fingerprints' rows alone.
C21_RoundTripWhenStored ==
    /\ [](applied.kind = "get" =>
            /\ ~applied.raised
            /\ ~applied.err => applied.value = shadow[applied.fp].kept
            /\ shadow[applied.fp].kept = None => applied.value = None)
    /\ [](applied.kind = "put" => ~applied.raised)
    /\ [][PutStep => OthersKept]_vars

\* a get returns the summary of the second put under its fingerprint
C21_Witness ==
    /\ applied.kind = "get" /\ ~applied.err
    /\ shadow[applied.fp].puts = 2
    /\ applied.value = Str(<<"x">>)
    /\ applied.value = shadow[applied.fp].kept

\* a step of the cache that is a prune
PruneStep == now' = now /\ applied'.kind = "prune"
\* the age of a row in seconds
Age(row) == now - row.timestamp
\* the table without the rows older than the horizon
WithoutOlder(days) ==
    [fp \in DOMAIN cache |->
        IF cache[fp].present /\ Age(cache[fp]) > days * Day THEN NoRow ELSE cache[fp]]
\* the row a get has just read, the row a put has just written
RowRead(fp) == IF cache[fp].present THEN Str(cache[fp].summary) ELSE None
RowWritten(summary) == [present |-> TRUE, summary |-> summary, timestamp |-> now]

\* C22 as stated: a prune with horizon d leaves the table without exactly
\* the rows older than d days, the others as they were; between prunes a
\* get returns the summary of the row in the table and a put writes its row.
C22_PruneExact ==
    /\ [][PruneStep => cache' = WithoutOlder(applied'.days)]_vars
    /\ [](applied.kind = "get" => applied.value = RowRead(applied.fp))
    /\ [][PutStep => cache'[applied'.fp] = RowWritten(applied'.summary)]_vars

\* C22, amended: a prune with horizon d that the storage carries out leaves
\* the table without exactly the rows older than d days, the others as they
\* were, and a prune that the storage fails deletes nothing; between prunes
\* a get the storage serves returns the summary of the row in the table and
\* a put the storage accepts writes its row.
C22_PruneExactWhenStored ==
    /\ [][PruneStep =>
            cache' = IF applied'.err THEN cache ELSE WithoutOlder(applied'.days)]_vars
    /\ [](applied.kind = "get" /\ ~applied.err => applied.value = RowRead(applied.fp))
    /\ [][PutStep /\ ~applied'.err =>
            cache'[applied'.fp] = RowWritten(applied'.summary)]_vars

\* the prune job's horizon at the last instant: the row written 400 days ago
\* is gone, the row written 10 days ago is there
C22_Witness ==
    /\ applied.kind = "prune" /\ ~applied.err /\ applied.days = RetentionDays
    /\ now = Instants[4] /\ applied.deleted = 1
    /\ \E h \in Fingerprints, g \in Fingerprints :
            /\ shadow[h].puts > 0 /\ shadow[h].keptAt = Instants[1]
            /\ ~cache[h].present
            /\ cache[g].present /\ cache[g].timestamp = Instants[3]
            /\ cache[g].summary = <<"x">>

(***************************************************************************)
(* Properties of the fingerprint (SpecFingerprint).                         *)
(***************************************************************************)
\* C23: equal triples have equal fingerprints and differing triples have
\* differing fingerprints, the separator in a field or not.
C23_Injective ==
    applied.kind = "fingerprint" =>
        (applied.x = applied.y <=> applied.fx = applied.fy)

(***************************************************************************)
(* Properties of strip_html_tags (SpecStrip).                               *)
(***************************************************************************)
\* where a target is first seen in the markup (0: nowhere)
FirstSeen(markup, l) ==
    LET at == {i \in DOMAIN markup : markup[i].tag = "a" /\ markup[i].href = l}
    IN  IF at = {} THEN 0 ELSE CHOOSE i \in at : \A j \in at : i <= j
\* the targets of the anchors of the markup that no blocklist entry is in
Surviving(markup) ==
    {l \in {markup[i].href : i \in DOMAIN markup} :
        FirstSeen(markup, l) > 0 /\ ~Blocked(l)}
\* the block lists the first 3 surviving targets, each once, as first seen
LinksBlockExact(markup, block) ==
    /\ Range(block) \subseteq Surviving(markup)
    /\ Len(block) = IF Cardinality(Surviving(markup)) < 3
                    THEN Cardinality(Surviving(markup)) ELSE 3
    /\ \A i \in DOMAIN block : \A j \in DOMAIN block :
            i < j => FirstSeen(markup, block[i]) < FirstSeen(markup, block[j])
    /\ \A l \in Surviving(markup) \ Range(block) : \A i \in DOMAIN block :
            FirstSeen(markup, block[i]) < FirstSeen(markup, l)

\* the Links block of any markup is exact (part of C24)
C24_LinksBlock ==
    applied.kind = "strip" => LinksBlockExact(applied.markup, applied.out.block)

\* C24: the text returned for any markup contains no tag, and its Links
\* block lists exactly the first 3 distinct anchor targets, in first-seen
\* order, that no blocklist entry is in (case-insensitively); there is no
\* block when no target survives and no blocked target is in the block.
C24_LinkStripping ==
    applied.kind = "strip" =>
        /\ \A i \in DOMAIN applied.out.text : ~IsTag(applied.out.text[i])
        /\ LinksBlockExact(applied.markup, applied.out.block)
        /\ \A i \in DOMAIN applied.out.block : ~Blocked(applied.out.block[i])

(***************************************************************************)
(* Properties of get_email_body (SpecBody).                                 *)
(***************************************************************************)
\* a part with content of the given type: data that is there and is not
\* the text "null"
HasContent(part, mimeType) ==
    /\ ~part.multi /\ part.mimeType = mimeType /\ part.data.present
    /\ part.data.decodable => part.data.content # <<>> /\ NotNull(part.data.content)
\* the first element of a sequence that satisfies a test
FirstWith(parts, Test(_)) ==
    parts[CHOOSE i \in DOMAIN parts : Test(parts[i]) /\ \A j \in 1..(i - 1) : ~Test(parts[j])]
\* a readable part exists in the tree
RECURSIVE Readable(_)
Readable(payload) ==
    IF payload.multi
    THEN \E i \in DOMAIN payload.parts :
            \/ HasContent(payload.parts[i], "text/plain")
            \/ HasContent(payload.parts[i], "text/html")
            \/ payload.parts[i].multi /\ Readable(payload.parts[i])
    ELSE payload.data.present
\* the body the priority policy gives
RECURSIVE Preferred(_)
Preferred(payload) ==
    LET IsPlain(q) == HasContent(q, "text/plain")
        IsHtml(q) == HasContent(q, "text/html")
        IsReadable(q) == q.multi /\ Readable(q)
        parts == payload.parts
    IN  IF ~Readable(payload) THEN Sentinel
        ELSE IF ~payload.multi
             THEN IF payload.mimeType = "text/html"
                  THEN remove_double_whitespace(StrippedText(payload.data.content))
                  ELSE remove_double_whitespace(payload.data.content)
        ELSE IF \E i \in DOMAIN parts : IsPlain(parts[i])
             THEN remove_double_whitespace(FirstWith(parts, IsPlain).data.content)
        ELSE IF \E i \in DOMAIN parts : IsHtml(parts[i])
             THEN remove_double_whitespace(
                      StrippedText(FirstWith(parts, IsHtml).data.content))
        ELSE Preferred(FirstWith(parts, IsReadable))
\* every part of the tree that has data has UTF-8 data
RECURSIVE AllDecodable(_)
AllDecodable(payload) ==
    /\ payload.data.decodable
    /\ \A i \in DOMAIN payload.parts : AllDecodable(payload.parts[i])

\* get_email_body raises on no payload (part of C25)
C25_NeverRaises == applied.kind = "body" => ~applied.out.raised

\* on payloads all of whose data is UTF-8, the body is the one the priority
\* policy gives (part of C25)
C25_PolicyOnText ==
    applied.kind = "body" /\ AllDecodable(applied.payload) =>
        applied.out = Returned(Preferred(applied.payload))

\* C25: on every payload tree the extraction does not raise and returns the
\* body the priority policy gives: the content of the first plain-text part
\* with content, otherwise the stripped content of the first rich-text part
\* with content, otherwise what the nested parts give, and the sentinel when
\* no readable part exists anywhere.
C25_BodyPolicy ==
    applied.kind = "body" =>
        /\ ~applied.out.raised
        /\ AllDecodable(applied.payload) =>
                applied.out.body = Preferred(applied.payload)

(***************************************************************************)
(* Properties of the watermark records (SpecWatermark).                     *)
(***************************************************************************)
\* the start_time a record holds, if it holds one
StartTime(file) ==
    IF file.exists /\ file.json = "object" /\ file.hasTime
    THEN [some |-> TRUE, time |-> file.time]
    ELSE [some |-> FALSE, time |-> 0]
StartTimesKept == \A a \in Accounts : StartTime(meta'[a]) = StartTime(meta[a])

\* C27: no step of a poll or of /label changes the start_time of any
\* account, whatever its record held before.
C27_StartTimeKept == [][StartTimesKept]_vars

\* the start_time is kept by every /label but one whose json.dump fails
C27_KeptUnlessDumpFails ==
    [][(applied'.kind = "label" /\ applied'.write = "dump_failed") \/ StartTimesKept]_vars

\* the record gives the poll no start_time: it is missing, cannot be read,
\* or has none
NoStartTime(file) ==
    ~file.exists \/ ~file.openable \/ file.json # "object" \/ ~file.hasTime

\* C30: a poll of an account whose record is missing, unreadable or without
\* start_time does not fail, uses start time 0 and lists with no
\* received-after filter; with a start_time T > 0 in the record it lists the
\* unread messages received after T only.
C30_WatermarkFilter ==
    applied.kind = "poll" =>
        /\ NoStartTime(applied.file) =>
                /\ ~applied.raised
                /\ applied.start_ts = 0
                /\ applied.query.unread /\ ~applied.query.after
        /\ (~NoStartTime(applied.file) /\ applied.file.time > 0) =>
                /\ ~applied.raised
                /\ applied.query.unread
                /\ applied.query.after /\ applied.query.time = applied.file.time

\* C30 for the records that can be opened
C30_FilterWhenOpened ==
    (applied.kind = "poll" /\ (applied.file.exists => applied.file.openable)) =>
        /\ NoStartTime(applied.file) =>
                /\ ~applied.raised
                /\ applied.start_ts = 0
                /\ applied.query.unread /\ ~applied.query.after
        /\ (~NoStartTime(applied.file) /\ applied.file.time > 0) =>
                /\ ~applied.raised
                /\ applied.query.unread
                /\ applied.query.after /\ applied.query.time = applied.file.time

====
